---------------------------- MODULE Spec2Model ----------------------------
(***************************************************************************)
(* A model of cellmlmanip: the CellML parser (encapsulation hierarchy,     *)
(* connection list), the unit store built on a unit registry, and the      *)
(* connection resolver.                                                    *)
(*                                                                         *)
(* Each part has its own specification over the module's variables; the    *)
(* variables a specification does not use stay at their idle values.       *)
(***************************************************************************)
EXTENDS Integers, Sequences, FiniteSets, TLC

VARIABLES
    \* ---- Parser.__add_relationships / Component hierarchy
    parent,         \* component -> name of its parent, or None
    encapsulated,   \* component -> set of encapsulated component names
    siblings,       \* component -> set of sibling component names
    relErr,         \* the exception that ended __add_relationships, or None
    nGroups,        \* number of <group> elements processed so far
    listed,         \* history: the <<parent, child>> component_ref nestings read
    listedTop,      \* history: components read at the top level of a group
    \* ---- Parser.__add_connection
    connections,    \* Model.connections: ((component_1, variable_1), (component_2, variable_2))
    map_component,  \* the local of __add_connection, or None while unbound
    connErr,        \* the exception that ended __add_connection, or None
    doc,            \* history: the <connection> elements read so far
    \* ---- Parser.__add_maths
    math_elements,  \* the <math> children of the <component>: equations in each
    component_equations, \* Component.equations
    mathsDone,      \* __add_maths has returned
    \* ---- UnitStore
    cellml_definitions, \* UnitStore.cellml_definitions: custom name -> <unit> elements
    ureg,           \* the registry's custom entries: pairs <<name, value>>
    cellml_defined, \* UnitStore.cellml_defined
    stack,          \* the active _make_cellml_unit calls, innermost last
    ret,            \* outcome of the last finished get_quantity call from outside
    nResolves,      \* get_quantity calls made from outside so far
    \* ---- equations and their units
    equation,       \* the stored equation: [lhs, rhs], each a product of symbols
    eqPhase,        \* unitsAnnotated, checked or failed
    checkResult,    \* outcome of the last check or reconciliation, or None
    factor,         \* the conversion symbols introduced by reconciliation
    original,       \* history: the equation before any reconciliation
    \* ---- Model.make_connections
    variables,      \* component -> its variable: interfaces and units
    assignment,     \* component -> the symbol its variable is bound to, or None
    equations,      \* component -> its equations
    pc,             \* the step make_connections is at
    resErr,         \* the exception that ended make_connections, or None
    nAccepted       \* connections accepted as edges so far

mathsVars == <<math_elements, component_equations, mathsDone>>
parserVars == <<parent, encapsulated, siblings, relErr, nGroups, listed, listedTop,
                connections, map_component, connErr, doc, mathsVars>>
storeVars == <<cellml_definitions, ureg, cellml_defined, stack, ret, nResolves>>
eqVars == <<equation, eqPhase, checkResult, factor, original>>
resolverVars == <<variables, assignment, equations, pc, resErr, nAccepted>>
vars == <<parserVars, storeVars, eqVars, resolverVars>>

None == "None"

(***************************************************************************)
(* Bounds of the model.                                                    *)
(***************************************************************************)
MaxGroups == 2      \* <group> elements in a document
MaxRefs == 3        \* <component_ref> elements in one <group>
MaxConnections == 2 \* <connection> elements in a document
MaxChildren == 2    \* child elements of one <connection>
MaxResolves == 2    \* get_quantity calls made on one UnitStore
MaxStack == 3       \* nested _make_cellml_unit calls before RecursionError
MaxFactors == 3     \* symbols multiplied on the right-hand side of an equation
MaxEdges == 2       \* connections between the variables of a model
MaxMaths == 3       \* <math> elements in one <component>
MaxExprs == 3       \* equations in one <math> element

\* The components of the document (Parser.__add_components has created them).
Components == {"P", "A", "B"}

(***************************************************************************)
(* A <group>'s nested <component_ref> elements in document order: each     *)
(* element with its nesting depth below the <group> (0 = child of the      *)
(* <group>).  An element at depth d+1 is a child of the nearest element    *)
(* at depth d before it.                                                   *)
(***************************************************************************)
IsAncestor(refs, j, i) ==
    /\ j < i
    /\ \A k \in (j+1)..i : refs[k].d > refs[j].d

\* Depths form a tree, and no component is nested below itself.
WellNested(refs) ==
    \A i \in 1..Len(refs) :
        /\ IF i = 1 THEN refs[i].d = 0 ELSE refs[i].d <= refs[i-1].d + 1
        /\ \A j \in 1..(i-1) : IsAncestor(refs, j, i) => refs[j].c # refs[i].c

RefForests ==
    UNION { { refs \in [1..n -> [c : Components, d : 0..(MaxRefs - 1)]] :
                WellNested(refs) } : n \in 0..MaxRefs }

Relationships == {"encapsulation", "containment"}

(***************************************************************************)
(* Idle values of the parts a specification does not use.                  *)
(***************************************************************************)
StoreIdle ==
    /\ cellml_definitions = <<>>
    /\ ureg = {}
    /\ cellml_defined = {}
    /\ stack = <<>>
    /\ ret = <<>>
    /\ nResolves = 0

EquationIdle ==
    /\ equation = <<>>
    /\ eqPhase = None
    /\ checkResult = None
    /\ factor = <<>>
    /\ original = <<>>

MathsIdle ==
    /\ math_elements = <<>>
    /\ component_equations = <<>>
    /\ mathsDone = FALSE

ResolverIdle ==
    /\ variables = <<>>
    /\ assignment = <<>>
    /\ equations = <<>>
    /\ pc = None
    /\ resErr = None
    /\ nAccepted = 0

(***************************************************************************)
(* Component (cellmlmanip.model): the relationship fields and the methods  *)
(* the parser calls on them.  `st` is the relationships of all components  *)
(* plus the exception raised so far.                                       *)
(***************************************************************************)
NoRelationships ==
    [parent |-> [c \in Components |-> None],
     encapsulated |-> [c \in Components |-> {}],
     siblings |-> [c \in Components |-> {}],
     err |-> None]

\* Component.set_parent: a component has zero or one parent; a second parent
\* is an ambiguous nesting, which is fatal.
set_parent(st, component, parent_name) ==
    IF st.parent[component] # None
    THEN [st EXCEPT !.err = "StructuralError"]
    ELSE [st EXCEPT !.parent[component] = parent_name]

\* Component.add_encapsulated: the set of encapsulated child names.
add_encapsulated(st, component, encapsulated_name) ==
    [st EXCEPT !.encapsulated[component] = @ \cup {encapsulated_name}]

\* Component.add_sibling: the set of sibling names.
add_sibling(st, component, sibling_name) ==
    [st EXCEPT !.siblings[component] = @ \cup {sibling_name}]

(***************************************************************************)
(* Parser.__handle_component_ref(parent_tag, parent_component).            *)
(*                                                                         *)
(* `refs` holds the <component_ref> elements below parent_tag, which sit   *)
(* at depth d and deeper; `sibs` is the `siblings` list collected so far   *)
(* by this call.  An exception ends the whole walk.                        *)
(***************************************************************************)
SeqRange(s) == { s[i] : i \in 1..Len(s) }

\* The elements below the first element of refs: those that follow it and
\* are nested deeper than d.
RECURSIVE SubtreeLen(_, _)
SubtreeLen(rest, d) ==
    IF rest = <<>> \/ Head(rest).d <= d THEN 0
    ELSE 1 + SubtreeLen(Tail(rest), d)

\* lines 182-185: with a parent component, record the relationship.
RecordChild(st, parent_component, child_component) ==
    IF parent_component # None
    THEN LET st1 == add_encapsulated(st, parent_component, child_component)
         IN  IF st1.err # None THEN st1
             ELSE set_parent(st1, child_component, parent_component)
    ELSE st

\* line 188: the component handed down as the parent of the nested elements.
MutDescendParent(parent_component, child_component) ==
    IF parent_component # None THEN parent_component ELSE child_component

DescendParent(parent_component, child_component) == child_component

\* itertools.product(siblings, siblings) as a sequence of pairs.
Product(sibs) ==
    [k \in 1..(Len(sibs) * Len(sibs)) |->
        <<sibs[((k - 1) \div Len(sibs)) + 1], sibs[((k - 1) % Len(sibs)) + 1]>>]

\* lines 193-195: each pair of different names registers a sibling.
RECURSIVE AddSiblingPairs(_, _)
AddSiblingPairs(st, pairs) ==
    IF pairs = <<>> \/ st.err # None THEN st
    ELSE LET component_a == Head(pairs)[1]
             component_b == Head(pairs)[2]
         IN  AddSiblingPairs(IF component_a # component_b
                             THEN add_sibling(st, component_a, component_b)
                             ELSE st,
                             Tail(pairs))

\* lines 191-195: register the siblings of a non-anonymous group with each other.
MutRegisterSiblings(st, parent_component, sibs) ==
    IF Len(sibs) > 1 THEN AddSiblingPairs(st, Product(sibs)) ELSE st

RegisterSiblings(st, parent_component, sibs) ==
    IF parent_component # None /\ Len(sibs) > 1
    THEN AddSiblingPairs(st, Product(sibs))
    ELSE st

RECURSIVE handle_component_ref(_, _, _, _, _)
handle_component_ref(refs, d, parent_component, sibs, st) ==
    IF st.err # None THEN st
    ELSE IF refs = <<>> THEN RegisterSiblings(st, parent_component, sibs)
    ELSE LET child_component == Head(refs).c
             n == SubtreeLen(Tail(refs), d)
             below == SubSeq(Tail(refs), 1, n)
             after == SubSeq(Tail(refs), n + 1, Len(Tail(refs)))
             st1 == RecordChild(st, parent_component, child_component)
             st2 == handle_component_ref(below, d + 1,
                        DescendParent(parent_component, child_component),
                        <<>>, st1)
         IN  handle_component_ref(after, d, parent_component,
                                  Append(sibs, child_component), st2)

\* Parser.__add_relationships, one <group>: only 'encapsulation' is handled.
add_relationships_group(st, relationship, refs) ==
    IF relationship = "encapsulation"
    THEN handle_component_ref(refs, 0, None, <<>>, st)
    ELSE st

\* Parser.__add_relationships over all the <group> elements of a document.
RECURSIVE add_relationships(_, _)
add_relationships(groups, st) ==
    IF groups = <<>> \/ st.err # None THEN st
    ELSE add_relationships(Tail(groups),
            add_relationships_group(st, Head(groups).relationship, Head(groups).refs))

(***************************************************************************)
(* What the document says, read off the elements directly: the immediate   *)
(* nestings <<parent, child>> and the components at the top of a group.    *)
(***************************************************************************)
ParentIndex(refs, i) ==
    IF refs[i].d = 0 THEN 0
    ELSE CHOOSE j \in 1..(i-1) :
            /\ refs[j].d = refs[i].d - 1
            /\ \A k \in (j+1)..(i-1) : refs[k].d > refs[j].d

Nestings(refs) ==
    { <<refs[ParentIndex(refs, i)].c, refs[i].c>> :
        i \in { k \in 1..Len(refs) : refs[k].d > 0 } }

TopLevel(refs) == { refs[i].c : i \in { k \in 1..Len(refs) : refs[k].d = 0 } }

(***************************************************************************)
(* The parser reading the <group> elements of a document one by one.       *)
(***************************************************************************)
RelState == [parent |-> parent, encapsulated |-> encapsulated,
             siblings |-> siblings, err |-> relErr]

InitGroups ==
    /\ parent = NoRelationships.parent
    /\ encapsulated = NoRelationships.encapsulated
    /\ siblings = NoRelationships.siblings
    /\ relErr = None
    /\ nGroups = 0
    /\ listed = {}
    /\ listedTop = {}
    /\ connections = <<>> /\ map_component = None /\ connErr = None /\ doc = <<>>
    /\ MathsIdle
    /\ StoreIdle /\ EquationIdle /\ ResolverIdle

HandleGroup ==
    /\ relErr = None
    /\ nGroups < MaxGroups
    /\ \E relationship \in Relationships, refs \in RefForests :
          LET st == add_relationships_group(RelState, relationship, refs)
          IN  /\ parent' = st.parent
              /\ encapsulated' = st.encapsulated
              /\ siblings' = st.siblings
              /\ relErr' = st.err
              /\ listed' = IF relationship = "encapsulation"
                           THEN listed \cup Nestings(refs) ELSE listed
              /\ listedTop' = IF relationship = "encapsulation"
                              THEN listedTop \cup TopLevel(refs) ELSE listedTop
    /\ nGroups' = nGroups + 1
    /\ UNCHANGED <<connections, map_component, connErr, doc, mathsVars>>
    /\ UNCHANGED <<storeVars, eqVars, resolverVars>>

NextGroups == HandleGroup

SpecGroups == InitGroups /\ [][NextGroups]_vars

(***************************************************************************)
(* Claims about the encapsulation hierarchy (specification SpecGroups).    *)
(***************************************************************************)
ListedParents(c) == { p \in Components : <<p, c>> \in listed }

\* C8: after the groups are processed, b is in a.siblings if and only if a and
\* b are different components listed as children of the same parent component.
C8_SiblingsAreSameParentChildren ==
    relErr = None =>
        \A a, b \in Components :
            b \in siblings[a] <=>
                (a # b /\ ListedParents(a) \cap ListedParents(b) # {})

\* C9: after any sequence of groups, every component has zero or one parent,
\* c is in p.encapsulated if and only if c.parent = p, encapsulated holds the
\* immediate children only, and a component only ever listed at the top level
\* of a group has parent None.
C9_ParentMatchesEncapsulated ==
    relErr = None =>
        \A c \in Components :
            /\ Cardinality(ListedParents(c)) <= 1
            /\ \A p \in Components :
                  /\ c \in encapsulated[p] <=> parent[c] = p
                  /\ c \in encapsulated[p] <=> <<p, c>> \in listed
            /\ ListedParents(c) = {} => parent[c] = None

\* A grandchild two levels below its grandparent, and a top-level component.
C9_Witness ==
    /\ relErr = None
    /\ nGroups = MaxGroups
    /\ \E g, p, c \in Components :
          /\ <<g, p>> \in listed /\ <<p, c>> \in listed
          /\ Cardinality({g, p, c}) = 3
          /\ g \in listedTop /\ parent[g] = None
          /\ c \notin encapsulated[g]

(***************************************************************************)
(* Parser.__add_connection.                                                *)
(*                                                                         *)
(* A <connection> element is the sequence of its children, each a          *)
(* <map_components component_1 component_2> or a <map_variables            *)
(* variable_1 variable_2>.                                                 *)
(***************************************************************************)
VariableNames == {"x", "y"}

MapComponentsChildren ==
    { [tag |-> "map_components", a1 |-> c[1], a2 |-> c[2]] :
        c \in {<<"P", "A">>, <<"A", "B">>} }

MapVariablesChildren ==
    { [tag |-> "map_variables", a1 |-> v[1], a2 |-> v[2]] :
        v \in {<<"x", "y">>, <<"y", "x">>} }

ConnectionElements ==
    UNION { [1..n -> MapComponentsChildren \cup MapVariablesChildren] :
                n \in 0..MaxChildren }

\* lines 139-146: the scan of the children; `r` is [mc, mvs].
RECURSIVE ScanChildren(_, _)
ScanChildren(children, r) ==
    IF children = <<>> THEN r
    ELSE LET child == Head(children)
         IN  ScanChildren(Tail(children),
                IF child.tag = "map_components"
                THEN [r EXCEPT !.mc = <<child.a1, child.a2>>]
                ELSE IF child.tag = "map_variables"
                THEN [r EXCEPT !.mvs = Append(@, <<child.a1, child.a2>>)]
                ELSE r)

\* lines 147-149: one entry per collected <map_variables>.
ConnectionEntriesOf(mc, mvs) ==
    [k \in 1..Len(mvs) |-> << <<mc[1], mvs[k][1]>>, <<mc[2], mvs[k][2]>> >>]

\* A variant that appends each entry as soon as its <map_variables> is read.
RECURSIVE StreamChildren(_, _)
StreamChildren(children, r) ==
    IF children = <<>> \/ r.err # None THEN r
    ELSE LET child == Head(children)
         IN  StreamChildren(Tail(children),
                IF child.tag = "map_components"
                THEN [r EXCEPT !.mc = <<child.a1, child.a2>>]
                ELSE IF r.mc = None
                THEN [r EXCEPT !.err = "UnboundLocalError"]
                ELSE [r EXCEPT !.entries =
                        Append(@, << <<r.mc[1], child.a1>>, <<r.mc[2], child.a2>> >>)])

MutAddConnectionElement(mc_before, children) ==
    StreamChildren(children, [mc |-> mc_before, entries |-> <<>>, err |-> None])

\* lines 136-149, one <connection>: the body of the loop.  map_component is
\* not reset between elements; reading it while unbound raises.
add_connection_element(mc_before, children) ==
    LET r == ScanChildren(children, [mc |-> mc_before, mvs |-> <<>>])
    IN  IF r.mvs # <<>> /\ r.mc = None
        THEN [mc |-> r.mc, entries |-> <<>>, err |-> "UnboundLocalError"]
        ELSE [mc |-> r.mc,
              entries |-> IF r.mvs = <<>> THEN <<>>
                          ELSE ConnectionEntriesOf(r.mc, r.mvs),
              err |-> None]

InitConnections ==
    /\ parent = NoRelationships.parent
    /\ encapsulated = NoRelationships.encapsulated
    /\ siblings = NoRelationships.siblings
    /\ relErr = None /\ nGroups = 0 /\ listed = {} /\ listedTop = {}
    /\ connections = <<>>
    /\ map_component = None
    /\ connErr = None
    /\ doc = <<>>
    /\ MathsIdle
    /\ StoreIdle /\ EquationIdle /\ ResolverIdle

HandleConnection ==
    /\ connErr = None
    /\ Len(doc) < MaxConnections
    /\ \E connection \in ConnectionElements :
          LET r == add_connection_element(map_component, connection)
          IN  /\ connections' = connections \o r.entries
              /\ map_component' = r.mc
              /\ connErr' = r.err
              /\ doc' = Append(doc, connection)
    /\ UNCHANGED <<parent, encapsulated, siblings, relErr, nGroups, listed, listedTop,
                   mathsVars>>
    /\ UNCHANGED <<storeVars, eqVars, resolverVars>>

NextConnections == HandleConnection

SpecConnections == InitConnections /\ [][NextConnections]_vars

(***************************************************************************)
(* Claims about the connection list (specification SpecConnections).       *)
(***************************************************************************)
ChildrenTagged(connection, tag) ==
    SelectSeq(connection, LAMBDA child : child.tag = tag)

\* The <map_variables> elements of the document in document order, each with
\* the index of the <connection> that contains it.
RECURSIVE LocateMapVariables(_, _)
LocateMapVariables(elements, e) ==
    IF e > Len(elements) THEN <<>>
    ELSE LET mvs == ChildrenTagged(elements[e], "map_variables")
         IN  [k \in 1..Len(mvs) |-> [e |-> e, mv |-> mvs[k]]]
             \o LocateMapVariables(elements, e + 1)

Dims == {"mass", "length", "time", "current", "Z"}

NoDim == [d \in Dims |-> 0]

Dimensionless == [ok |-> TRUE, e |-> 0, dim |-> NoDim]

Unresolvable == [ok |-> FALSE, e |-> 0, dim |-> NoDim]

Mul(a, b) ==
    IF a.ok /\ b.ok
    THEN [ok |-> TRUE, e |-> a.e + b.e, dim |-> [d \in Dims |-> a.dim[d] + b.dim[d]]]
    ELSE Unresolvable

Pow(a, n) ==
    IF a.ok THEN [ok |-> TRUE, e |-> a.e * n, dim |-> [d \in Dims |-> a.dim[d] * n]]
    ELSE Unresolvable

Scale(a, k) == IF a.ok THEN [a EXCEPT !.e = @ + k] ELSE Unresolvable

\* The metric prefixes, as powers of ten ("" is no prefix).
Prefixes == {"", "milli", "kilo"}

PrefixExp(prefix) ==
    CASE prefix = "milli" -> -3
      [] prefix = "kilo" -> 3
      [] OTHER -> 0

\* Units the registry provides by itself.
PintRoots == {"second", "volt", "meter"}

PintRootValue(n) ==
    CASE n = "second" -> [ok |-> TRUE, e |-> 0,
                          dim |-> [NoDim EXCEPT !["time"] = 1]]
      [] n = "meter" -> [ok |-> TRUE, e |-> 0,
                         dim |-> [NoDim EXCEPT !["length"] = 1]]
      [] n = "volt" -> [ok |-> TRUE, e |-> 0,
                        dim |-> [NoDim EXCEPT !["mass"] = 1, !["length"] = 2,
                                              !["time"] = -3, !["current"] = -1]]
      [] OTHER -> Unresolvable

\* Symbols the registry provides: the name stands for a prefixed unit.
PintAliases == {"ms"}

PintAliasOf(n) == [p |-> "milli", n |-> "second"]

\* Names a CellML document may give its own units, and names it may refer to.
CustomNames == {"X", "Y", "Z", "ms"}

UnitNames == CustomNames \cup PintRoots \cup {"undeclared"}

NoUnit == [p |-> "", n |-> None]

(***************************************************************************)
(* The registry: the built-in units and the custom entries `reg` added by  *)
(* ureg.define.                                                            *)
(***************************************************************************)
EmptyRegistry == {}

\* The custom entries are pairs <<name, value>>.
Defined(reg, name) == \E entry \in reg : entry[1] = name

DefinedValue(reg, name) == (CHOOSE entry \in reg : entry[1] = name)[2]

\* ureg.define(name = value)
Define(reg, name, val) == { entry \in reg : entry[1] # name } \cup { <<name, val>> }

\* getattr(ureg, name) / parse_expression(name) find the name.
Known(reg, name) ==
    \/ name \in PintRoots
    \/ name \in PintAliases
    \/ Defined(reg, name)

\* parse_expression(unit_name).units: the unit under its canonical name.
ParseName(reg, name) ==
    IF name \in PintAliases THEN PintAliasOf(name)
    ELSE IF name \in PintRoots \/ Defined(reg, name)
    THEN [p |-> "", n |-> name]
    ELSE NoUnit

RootValue(reg, n) ==
    IF n \in PintRoots THEN PintRootValue(n)
    ELSE IF Defined(reg, n) THEN DefinedValue(reg, n)
    ELSE Unresolvable

\* The value of a unit given by canonical name.
UnitValue(reg, unit) == Scale(RootValue(reg, unit.n), PrefixExp(unit.p))

\* The value of the text prefix + str(unit): a name that already carries a
\* prefix takes no second one.
PrefixedValue(reg, prefix, unit) ==
    IF prefix # "" /\ unit.p # "" THEN Unresolvable
    ELSE Scale(RootValue(reg, unit.n), PrefixExp(prefix) + PrefixExp(unit.p))

(***************************************************************************)
(* UnitStore (units.py).  A <unit> element is the record of its            *)
(* attributes: units, prefix ("" when absent), exponent (1 when absent)    *)
(* and multiplier (a power of ten, 0 when absent).                         *)
(***************************************************************************)
UnitElement(units, prefix, exponent, multiplier) ==
    [units |-> units, prefix |-> prefix, exponent |-> exponent,
     multiplier |-> multiplier]

\* Parser.__add_units, lines 79-82: a <units base_units="yes"> without
\* children is the single element {'base_units': 'yes'}, which has no
\* 'units' key.
Absent == "absent"

BaseUnits == UnitElement(Absent, "", 1, 0)

\* The attribute combinations of the documents considered.
ElementsOver(names) ==
    { UnitElement(n, a[1], a[2], a[3]) :
        n \in names,
        a \in { <<"", 1, 0>>, <<"milli", 1, 0>>, <<"", 2, 0>>,
                <<"milli", 2, 0>>, <<"", 1, 3>> } }

\* The <units> definitions a document may hold for each custom name;
\* <<>> stands for a name the document does not declare.
DefinitionsOfX ==
    { <<first>> \o rest :
        first \in ElementsOver({"second", "Y"}),
        rest \in { <<>>,
                   << UnitElement("Z", "milli", 1, 0) >>,
                   << UnitElement("Z", "", 1, 0) >>,
                   << UnitElement("ms", "", 1, 0) >>,
                   << UnitElement("meter", "", 2, 0) >> } }
    \cup { << UnitElement("X", "", 1, 0) >> }

DefinitionsOfY ==
    { <<>>,
      << UnitElement("second", "", 1, 0) >>,
      << UnitElement("second", "", 1, 3) >>,
      << UnitElement("volt", "milli", 1, 0) >>,
      << UnitElement("Z", "", 2, 0) >>,
      << UnitElement("X", "", 1, 0) >>,
      << UnitElement("undeclared", "", 1, 0) >> }

DefinitionsOfZ ==
    { <<>>,
      << BaseUnits >>,
      << UnitElement("volt", "", 1, 0) >>,
      << UnitElement("second", "kilo", 1, 0) >> }

DefinitionsOfMs ==
    { <<>>, << UnitElement("second", "milli", 1, 0) >> }

DefinitionTables ==
    { [n \in CustomNames |->
          CASE n = "X" -> t[1] [] n = "Y" -> t[2] [] n = "Z" -> t[3] [] OTHER -> t[4]] :
        t \in DefinitionsOfX \X DefinitionsOfY \X DefinitionsOfZ \X DefinitionsOfMs }

\* unit_name in self.cellml_definitions
Declared(defs, name) == name \in CustomNames /\ defs[name] # <<>>

\* lines 95-99: a custom definition not built yet, for a name the registry
\* does not know.
NeedsBuild(defs, reg, defined, unit_name) ==
    /\ Declared(defs, unit_name)
    /\ unit_name \notin defined
    /\ ~Known(reg, unit_name)

\* lines 106-110: the unit from the registry, or ValueError.
LookupUnit(reg, unit_name) ==
    IF Known(reg, unit_name)
    THEN [err |-> None, unit |-> ParseName(reg, unit_name)]
    ELSE [err |-> "ValueError", unit |-> NoUnit]

\* lines 124-134: the expression of one <unit>, as prefix, str(matched_unit)
\* and exponent.  The multiplier attribute is not read.
UnitExpr(unit_element, matched_unit) ==
    [prefix |-> unit_element.prefix, unit |-> matched_unit,
     exponent |-> unit_element.exponent]

\* What the registry makes of 'name = expr*expr*...' (line 102).
RECURSIVE DefinitionValue(_, _)
DefinitionValue(reg, exprs) ==
    IF exprs = <<>> THEN Dimensionless
    ELSE Mul(Pow(PrefixedValue(reg, Head(exprs).prefix, Head(exprs).unit),
                 Head(exprs).exponent),
             DefinitionValue(reg, Tail(exprs)))

NewFrame(custom_unit_name) ==
    [name |-> custom_unit_name, i |-> 1, full_unit_expr |-> <<>>]

\* The innermost _make_cellml_unit gets matched_unit for its current <unit>.
Matched(frames, defs, matched_unit) ==
    LET f == frames[Len(frames)]
    IN  [frames EXCEPT ![Len(frames)] =
            [f EXCEPT !.i = @ + 1,
                      !.full_unit_expr =
                          Append(@, UnitExpr(defs[f.name][f.i], matched_unit))]]

\* lines 100-101 reached from line 122: get_quantity calls _make_cellml_unit
\* for the referenced name, one call deeper.
MutCall(frames, unit_name) ==
    IF \E k \in 1..Len(frames) : frames[k].name = unit_name
    THEN LET k == CHOOSE i \in 1..Len(frames) : frames[i].name = unit_name
         IN  Append(SubSeq(frames, 1, k - 1), NewFrame(unit_name))
    ELSE Append(frames, NewFrame(unit_name))

Call(frames, unit_name) == Append(frames, NewFrame(unit_name))

NoReturn == [name |-> None, err |-> None, unit |-> NoUnit]

InitStore ==
    /\ parent = NoRelationships.parent
    /\ encapsulated = NoRelationships.encapsulated
    /\ siblings = NoRelationships.siblings
    /\ relErr = None /\ nGroups = 0 /\ listed = {} /\ listedTop = {}
    /\ connections = <<>> /\ map_component = None /\ connErr = None /\ doc = <<>>
    /\ MathsIdle
    /\ cellml_definitions \in DefinitionTables
    /\ ureg = EmptyRegistry
    /\ cellml_defined = {}
    /\ stack = <<>>
    /\ ret = NoReturn
    /\ nResolves = 0
    /\ EquationIdle /\ ResolverIdle

\* get_quantity(unit_name) called from outside the store.
GetQuantity ==
    /\ stack = <<>>
    /\ nResolves < MaxResolves
    /\ \E unit_name \in {"X", "Y", "Z", "ms", "second"} :
          IF NeedsBuild(cellml_definitions, ureg, cellml_defined, unit_name)
          THEN /\ stack' = << NewFrame(unit_name) >>
               /\ ret' = NoReturn
          ELSE /\ stack' = <<>>
               /\ ret' = [name |-> unit_name,
                          err |-> LookupUnit(ureg, unit_name).err,
                          unit |-> LookupUnit(ureg, unit_name).unit]
    /\ nResolves' = nResolves + 1
    /\ UNCHANGED <<cellml_definitions, ureg, cellml_defined>>
    /\ UNCHANGED <<parserVars, eqVars, resolverVars>>

\* _make_cellml_unit, one <unit> of the loop: get_quantity(unit_element['units'])
\* either recurses, raises, or returns the matched unit.
MakeUnitStep ==
    /\ stack # <<>>
    /\ LET f == stack[Len(stack)]
           elements == cellml_definitions[f.name]
       IN  /\ f.i <= Len(elements)
           /\ LET units == elements[f.i].units
                  found == LookupUnit(ureg, units)
              IN  IF units = Absent
                  THEN /\ stack' = <<>>
                       /\ ret' = [name |-> stack[1].name,
                                  err |-> "KeyError", unit |-> NoUnit]
                  ELSE IF NeedsBuild(cellml_definitions, ureg, cellml_defined, units)
                  THEN IF Len(stack) >= MaxStack
                       THEN /\ stack' = <<>>
                            /\ ret' = [name |-> stack[1].name,
                                       err |-> "RecursionError", unit |-> NoUnit]
                       ELSE /\ stack' = Call(stack, units)
                            /\ ret' = ret
                  ELSE IF found.err # None
                       THEN /\ stack' = <<>>
                            /\ ret' = [name |-> stack[1].name,
                                       err |-> found.err, unit |-> NoUnit]
                       ELSE /\ stack' = Matched(stack, cellml_definitions, found.unit)
                            /\ ret' = ret
    /\ UNCHANGED <<cellml_definitions, ureg, cellml_defined, nResolves>>
    /\ UNCHANGED <<parserVars, eqVars, resolverVars>>

\* _make_cellml_unit returns: lines 102-103 define the unit and record it,
\* lines 106-110 hand it to the caller.
MakeUnitFinish ==
    /\ stack # <<>>
    /\ LET f == stack[Len(stack)]
           callers == SubSeq(stack, 1, Len(stack) - 1)
           reg == Define(ureg, f.name, DefinitionValue(ureg, f.full_unit_expr))
           found == LookupUnit(reg, f.name)
       IN  /\ f.i > Len(cellml_definitions[f.name])
           /\ ureg' = reg
           /\ cellml_defined' = cellml_defined \cup {f.name}
           /\ IF callers = <<>>
              THEN /\ stack' = <<>>
                   /\ ret' = [name |-> f.name, err |-> found.err, unit |-> found.unit]
              ELSE /\ stack' = Matched(callers, cellml_definitions, found.unit)
                   /\ ret' = ret
    /\ UNCHANGED <<cellml_definitions, nResolves>>
    /\ UNCHANGED <<parserVars, eqVars, resolverVars>>

NextStore == GetQuantity \/ MakeUnitStep \/ MakeUnitFinish

SpecStore == InitStore /\ [][NextStore]_vars

\* The tables that differ in which names their elements refer to and in
\* their prefixes: exponent and multiplier play no part in the order of the
\* calls.
PlainTables ==
    { t \in DefinitionTables :
        \A n \in CustomNames : \A k \in 1..Len(t[n]) :
            t[n][k].exponent = 1 /\ t[n][k].multiplier = 0 }

InitStoreLive == InitStore /\ cellml_definitions \in PlainTables

\* A call that has started runs on: its steps are not postponed for ever.
SpecStoreLive ==
    /\ InitStoreLive
    /\ [][NextStore]_vars
    /\ WF_vars(MakeUnitStep)
    /\ WF_vars(MakeUnitFinish)

(***************************************************************************)
(* Claims about unit resolution (specification SpecStore).                 *)
(***************************************************************************)
\* Every reference reachable from `name` is a built-in or a declared unit,
\* and no unit is defined in terms of itself.
RECURSIVE WellFounded(_, _, _)
WellFounded(defs, name, above) ==
    IF name \in above THEN FALSE
    ELSE IF Declared(defs, name)
    THEN \A k \in 1..Len(defs[name]) :
            WellFounded(defs, defs[name][k].units, above \cup {name})
    ELSE name \in PintRoots \cup PintAliases

\* The unit a name stands for by the document: the product over its <unit>
\* elements of (multiplier * prefix * referenced unit) ^ exponent.
RECURSIVE DeclaredValue(_, _)
DeclaredProduct(defs, elements) ==
    LET Factor(el) ==
            Pow(Scale(DeclaredValue(defs, el.units),
                      el.multiplier + PrefixExp(el.prefix)),
                el.exponent)
        F[k \in 0..Len(elements)] ==
            IF k = 0 THEN Dimensionless ELSE Mul(F[k - 1], Factor(elements[k]))
    IN  F[Len(elements)]

DeclaredValue(defs, name) ==
    IF Declared(defs, name) THEN DeclaredProduct(defs, defs[name])
    ELSE IF name \in PintAliases
    THEN UnitValue(EmptyRegistry, PintAliasOf(name))
    ELSE PintRootValue(name)

Returned == stack = <<>> /\ ret.name # None

\* C7: for a table whose references are all built-in or declared, resolving a
\* declared name succeeds, whatever was resolved before, and returns the unit
\* equal to the product over its fragments of
\* (multiplier * prefix * referenced unit) ^ exponent.
C7_ResolveYieldsDeclaredProduct ==
    (/\ Returned
     /\ Declared(cellml_definitions, ret.name)
     /\ WellFounded(cellml_definitions, ret.name, {}))
        => /\ ret.err = None
           /\ UnitValue(ureg, ret.unit) = DeclaredValue(cellml_definitions, ret.name)

(***************************************************************************)
(* Units of expressions.  A pint Unit is a container: the exponent of each *)
(* named unit (0 for a name that does not occur).  Its text form is a      *)
(* sequence of tokens.                                                     *)
(***************************************************************************)
\* The unit names of the equations considered, in the formatter's order.
NameOrder == <<"millisecond", "millivolt", "second", "volt">>

EqUnitNames == SeqRange(NameOrder)

NameUnit(name) ==
    CASE name = "millisecond" -> [p |-> "milli", n |-> "second"]
      [] name = "millivolt" -> [p |-> "milli", n |-> "volt"]
      [] OTHER -> [p |-> "", n |-> name]

EmptyContainer == [n \in EqUnitNames |-> 0]

UnitOfName(name) == [EmptyContainer EXCEPT ![name] = 1]

ContainerMul(a, b) == [n \in EqUnitNames |-> a[n] + b[n]]

ContainerPow(a, k) == [n \in EqUnitNames |-> a[n] * k]

\* The value of a container in base units (to_base_units / dimensionality).
ContainerValue(c) ==
    LET F[k \in 0..Len(NameOrder)] ==
            IF k = 0 THEN Dimensionless
            ELSE Mul(F[k - 1],
                     Pow(UnitValue(EmptyRegistry, NameUnit(NameOrder[k])),
                         c[NameOrder[k]]))
    IN  F[Len(NameOrder)]

Word(text) == [k |-> "word", s |-> text, n |-> 0]
Number(value) == [k |-> "number", s |-> "", n |-> value]
Op(text) == [k |-> "op", s |-> text, n |-> 0]

Abs(k) == IF k < 0 THEN -k ELSE k

\* str(unit): 'a * b ** 2 / c / d ** 3', '1 / c' without a numerator,
\* 'dimensionless' for the empty container.
PowerTokens(c, name) ==
    IF Abs(c[name]) = 1 THEN << Word(name) >>
    ELSE << Word(name), Op("**"), Number(Abs(c[name])) >>

RECURSIVE JoinTokens(_, _, _, _)
JoinTokens(c, names, separator, first) ==
    IF names = <<>> THEN <<>>
    ELSE (IF first THEN <<>> ELSE << Op(separator) >>)
         \o PowerTokens(c, Head(names))
         \o JoinTokens(c, Tail(names), separator, FALSE)

FormatUnit(c) ==
    LET pos == SelectSeq(NameOrder, LAMBDA n : c[n] > 0)
        neg == SelectSeq(NameOrder, LAMBDA n : c[n] < 0)
    IN  IF pos = <<>> /\ neg = <<>> THEN << Word("dimensionless") >>
        ELSE (IF pos = <<>> THEN << Number(1) >>
              ELSE JoinTokens(c, pos, "*", TRUE))
             \o JoinTokens(c, neg, "/", FALSE)

\* UnitDummy.__str__ under UnitLambdaPrinter, line 227:
\* re.sub(r'\b([a-zA-Z_0-9]+)\b', r'u.\1', str(self.unit)) puts 'u.' in front
\* of every run of letters, digits and underscores.
RegexSub(tokens) ==
    [i \in 1..Len(tokens) |->
        IF tokens[i].k \in {"word", "number"}
        THEN [tokens[i] EXCEPT !.k = IF tokens[i].k = "word"
                                     THEN "attr" ELSE "attr_number"]
        ELSE tokens[i]]

\* eval(...) of the printed text against the registry `u` (line 177):
\* 'u.name' is a unit of the registry, 'u.2' is not Python.
RECURSIVE EvalTokens(_, _, _)
EvalTokens(tokens, acc, op) ==
    IF tokens = <<>> THEN [err |-> None, units |-> acc]
    ELSE LET t == Head(tokens)
             powered == Len(tokens) >= 3 /\ tokens[2] = Op("**")
             sign == IF op = "/" THEN -1 ELSE 1
         IN  IF t.k = "op" THEN EvalTokens(Tail(tokens), acc, t.s)
             ELSE IF t.k = "attr_number"
                     \/ (powered /\ tokens[3].k = "attr_number")
             THEN [err |-> "SyntaxError", units |-> EmptyContainer]
             ELSE IF t.k = "number"
             THEN EvalTokens(Tail(tokens), acc, "*")
             ELSE LET u == IF t.s = "dimensionless" THEN EmptyContainer
                           ELSE UnitOfName(t.s)
                      k == IF powered THEN tokens[3].n ELSE 1
                      rest == IF powered THEN SubSeq(tokens, 4, Len(tokens))
                              ELSE Tail(tokens)
                  IN  EvalTokens(rest,
                                 ContainerMul(acc, ContainerPow(u, sign * k)),
                                 "*")

\* A symbol of an equation is a UnitDummy: its unit, and the power it has in
\* the product.
Symbol(unit, power) == [unit |-> unit, power |-> power]

\* '(1 * (%s))' evaluated: the units of one printed symbol.
SymbolUnits(symbol) ==
    LET r == EvalTokens(RegexSub(FormatUnit(symbol.unit)), EmptyContainer, "*")
    IN  IF r.err # None THEN r
        ELSE [err |-> None, units |-> ContainerPow(r.units, symbol.power)]

\* UnitStore.summarise_units: print the expression, evaluate it, take .units.
RECURSIVE summarise_units(_)
summarise_units(expr) ==
    IF expr = <<>> THEN [err |-> None, units |-> EmptyContainer]
    ELSE LET first == SymbolUnits(Head(expr))
             rest == summarise_units(Tail(expr))
         IN  IF first.err # None THEN first
             ELSE IF rest.err # None THEN rest
             ELSE [err |-> None, units |-> ContainerMul(first.units, rest.units)]

SameDimensionality(u1, u2) == ContainerValue(u1).dim = ContainerValue(u2).dim

\* q1.to(q2).magnitude for q1 = 1 * u1, as a power of ten.
ToMagnitude(u1, u2) == ContainerValue(u1).e - ContainerValue(u2).e

\* math.isclose(10 ** k, 1.0)
IsCloseToOne(k) == k = 0

\* UnitStore.is_unit_equal, lines 149-155; `and` does not evaluate the
\* conversion when the dimensionalities differ.
MutIsUnitEqual(u1, u2) == SameDimensionality(u1, u2)

is_unit_equal(u1, u2) ==
    SameDimensionality(u1, u2) /\ IsCloseToOne(ToMagnitude(u1, u2))

\* UnitStore.convert_to, lines 164-167: q1.to(q2) raises for different
\* dimensionalities.
MutConvertTo(u1, u2) ==
    IF SameDimensionality(u1, u2)
    THEN [err |-> None, magnitude |-> ToMagnitude(u2, u1)]
    ELSE [err |-> "DimensionalityError", magnitude |-> 0]

convert_to(u1, u2) ==
    IF SameDimensionality(u1, u2)
    THEN [err |-> None, magnitude |-> ToMagnitude(u1, u2)]
    ELSE [err |-> "DimensionalityError", magnitude |-> 0]

\* Model.check_left_right_units_equal: the units of both sides,
\* asserted unit-equal.
check_left_right_units_equal(eq) ==
    LET lhs_units == summarise_units(eq.lhs)
        rhs_units == summarise_units(eq.rhs)
    IN  IF lhs_units.err # None THEN lhs_units.err
        ELSE IF rhs_units.err # None THEN rhs_units.err
        ELSE IF is_unit_equal(lhs_units.units, rhs_units.units) THEN "passed"
        ELSE "AssertionError"

\* tests/test_parser.py lines 118-131: the right-hand side multiplied by a new
\* symbol whose number is the converted magnitude and whose unit is
\* lhs_units / rhs_units.
reconcile(eq) ==
    LET lhs_units == summarise_units(eq.lhs).units
        rhs_units == summarise_units(eq.rhs).units
        new_rhs == convert_to(rhs_units, lhs_units)
        new_dummy == [number |-> new_rhs.magnitude,
                      unit |-> ContainerMul(lhs_units, ContainerPow(rhs_units, -1))]
    IN  IF new_rhs.err # None
        THEN [err |-> new_rhs.err, eq |-> eq, new_dummy |-> <<>>]
        ELSE [err |-> None,
              eq |-> [lhs |-> eq.lhs,
                      rhs |-> Append(eq.rhs, Symbol(new_dummy.unit, 1))],
              new_dummy |-> << new_dummy >>]

(***************************************************************************)
(* Equations: a symbol on the left, a product of symbols and reciprocals   *)
(* of symbols on the right, every symbol with the unit of its variable.    *)
(***************************************************************************)
VariableSymbols ==
    { Symbol(UnitOfName(n), k) : n \in EqUnitNames, k \in {1, -1} }

Equations ==
    [lhs : { << Symbol(UnitOfName(n), 1) >> : n \in EqUnitNames },
     rhs : UNION { [1..k -> VariableSymbols] : k \in 1..MaxFactors }]

InitEquations ==
    /\ parent = NoRelationships.parent
    /\ encapsulated = NoRelationships.encapsulated
    /\ siblings = NoRelationships.siblings
    /\ relErr = None /\ nGroups = 0 /\ listed = {} /\ listedTop = {}
    /\ connections = <<>> /\ map_component = None /\ connErr = None /\ doc = <<>>
    /\ MathsIdle
    /\ StoreIdle /\ ResolverIdle
    /\ equation \in Equations
    /\ eqPhase = "unitsAnnotated"
    /\ checkResult = None
    /\ factor = <<>>
    /\ original = equation

\* checkEquation on the stored equation.
CheckEquation ==
    /\ eqPhase = "unitsAnnotated"
    /\ checkResult' = check_left_right_units_equal(equation)
    /\ eqPhase' = "checked"
    /\ UNCHANGED <<equation, factor, original>>
    /\ UNCHANGED <<parserVars, storeVars, resolverVars>>

\* The caller answers a unit mismatch by reconciling the equation, once.
ReconcileEquation ==
    /\ eqPhase = "checked"
    /\ checkResult = "AssertionError"
    /\ factor = <<>>
    /\ LET r == reconcile(equation)
       IN  /\ equation' = r.eq
           /\ factor' = r.new_dummy
           /\ eqPhase' = IF r.err = None THEN "unitsAnnotated" ELSE "failed"
           /\ checkResult' = IF r.err = None THEN None ELSE r.err
    /\ UNCHANGED original
    /\ UNCHANGED <<parserVars, storeVars, resolverVars>>

NextEquations == CheckEquation \/ ReconcileEquation

SpecEquations == InitEquations /\ [][NextEquations]_vars

(***************************************************************************)
(* Claims about the units of equations                                     *)
(***************************************************************************)
\* The units of an expression from the units of its variables, without
\* printing and evaluating.
RECURSIVE ExprUnits(_)
ExprUnits(expr) ==
    IF expr = <<>> THEN EmptyContainer
    ELSE ContainerMul(ContainerPow(Head(expr).unit, Head(expr).power),
                      ExprUnits(Tail(expr)))

SidesUnitEqual(eq) ==
    ContainerValue(ExprUnits(eq.lhs)) = ContainerValue(ExprUnits(eq.rhs))

\* C5: every equation whose sides differ in units but agree in dimensionality,
\* once replaced by lhs = rhs * factorSymbol, passes checkEquation.
C5_ReconciledEquationChecks ==
    (eqPhase = "checked" /\ factor # <<>>) => checkResult = "passed"

\* C6: checkEquation raises the unit-mismatch assertion exactly when the
\* units of the two sides are not unit-equal (same dimensionality and scale
\* factor 1), and the equality test gives the same answer in either order.
C6_AssertionIffNotUnitEqual ==
    eqPhase = "checked" =>
        /\ (checkResult = "AssertionError") <=> ~SidesUnitEqual(equation)
        /\ is_unit_equal(ExprUnits(equation.lhs), ExprUnits(equation.rhs))
           = is_unit_equal(ExprUnits(equation.rhs), ExprUnits(equation.lhs))

\* An equation of one dimensionality and two scales was checked and refused.
C6_Witness ==
    /\ eqPhase = "checked"
    /\ factor = <<>>
    /\ checkResult = "AssertionError"
    /\ SameDimensionality(ExprUnits(equation.lhs), ExprUnits(equation.rhs))

(***************************************************************************)
(* Model.make_connections: the connection resolver.  Every component has   *)
(* one variable, named x; its identity symbol is namespaced by the         *)
(* component, so the component's name stands for it.                       *)
(***************************************************************************)
identitySymbol(c) == c

Variable(public_interface, private_interface, units) ==
    [public_interface |-> public_interface,
     private_interface |-> private_interface,
     units |-> units]

\* The interface declarations considered: (public, private).
Interfaces ==
    { <<"out", "none">>, <<"in", "none">>, <<"in", "out">>,
      <<"none", "out">>, <<"out", "in">> }

\* P and B are in milliseconds; A is in milliseconds or seconds.
UnitsOf(c) == IF c = "A" THEN {"ms", "second"} ELSE {"ms"}

VariableTables ==
    { t \in [Components -> { Variable(i[1], i[2], u) :
                                i \in Interfaces, u \in {"ms", "second"} }] :
        \A c \in Components : t[c].units \in UnitsOf(c) }

Ref(c, d) == [c |-> c, d |-> d]

\* The <group> elements of the documents considered: P > A > B, P > {A, B},
\* P > A beside a free B, and no encapsulation at all.
HierarchyDocuments ==
    { << [relationship |-> "encapsulation",
          refs |-> << Ref("P", 0), Ref("A", 1), Ref("B", 2) >>] >>,
      << [relationship |-> "encapsulation",
          refs |-> << Ref("P", 0), Ref("A", 1), Ref("B", 1) >>] >>,
      << [relationship |-> "encapsulation",
          refs |-> << Ref("P", 0), Ref("A", 1) >>] >>,
      << >> }

Connection(c1, c2) == << <<c1, "x">>, <<c2, "x">> >>

PossibleConnections ==
    { Connection("P", "A"), Connection("A", "B"), Connection("P", "B") }

ConnectionLists ==
    UNION { { l \in [1..n -> PossibleConnections] :
                \A i, j \in 1..n : i # j => l[i] # l[j] } : n \in 1..MaxEdges }

Endpoints(connection) == { connection[1][1], connection[2][1] }

CannotDetermine == "Cannot determine the source & target"

InvalidConnectionError(connection) ==
    [type |-> "InvalidConnectionError", message |-> CannotDetermine,
     about |-> Endpoints(connection)]

AmbiguousSourceError(group) ==
    [type |-> "AmbiguousSourceError", message |-> CannotDetermine,
     about |-> group]

\* isVisible: the same component, its parent, a child or a sibling; two
\* components without a parent stand side by side at the top of the model.
isVisible(fromComponent, toComponent) ==
    \/ fromComponent = toComponent
    \/ parent[fromComponent] = toComponent
    \/ toComponent \in encapsulated[fromComponent]
    \/ toComponent \in siblings[fromComponent]
    \/ parent[fromComponent] = None /\ parent[toComponent] = None

\* Step 1: the connected group of a variable in the graph of connections.
RECURSIVE Sweep(_, _)
Sweep(conns, group) ==
    IF conns = <<>> THEN group
    ELSE Sweep(Tail(conns),
               IF Endpoints(Head(conns)) \cap group # {}
               THEN group \cup Endpoints(Head(conns))
               ELSE group)

MutGroup(conns, c) == Sweep(conns, {c})

RECURSIVE Closure(_, _)
Closure(conns, group) ==
    LET next == Sweep(conns, group)
    IN  IF next = group THEN group ELSE Closure(conns, next)

Group(conns, c) == Closure(conns, {c})

Groups(conns) ==
    { g \in { Group(conns, c) : c \in Components } : Cardinality(g) > 1 }

Neighbours(conns, c) ==
    { n \in Components \ {c} : \E i \in 1..Len(conns) : Endpoints(conns[i]) = {c, n} }

DeclaresIn(v) == v.public_interface = "in" \/ v.private_interface = "in"

DeclaresOut(v) == v.public_interface = "out" \/ v.private_interface = "out"

\* The interface of c that faces n: private towards a child, public otherwise.
Facing(c, n) ==
    IF n \in encapsulated[c] THEN variables[c].private_interface
    ELSE variables[c].public_interface

\* Step 2: the sources of a group declare `out` on the side facing the rest of
\* the group and are never an `in`.
SourcesOf(conns, group) ==
    { c \in group :
        /\ DeclaresOut(variables[c])
        /\ ~DeclaresIn(variables[c])
        /\ \A n \in Neighbours(conns, c) : Facing(c, n) = "out" }

MutAmbiguousGroups(conns) ==
    { g \in Groups(conns) : SourcesOf(conns, g) = {} }

\* The direction of a connection comes from the interfaces of its two sides:
\* one gives the value out, the other takes it in.
Directed(connection) ==
    LET c1 == connection[1][1]
        c2 == connection[2][1]
    IN  {Facing(c1, c2), Facing(c2, c1)} = {"in", "out"}

\* Exactly one source, while all the others take the value in.
AmbiguousGroups(conns) ==
    { g \in Groups(conns) :
        \/ Cardinality(SourcesOf(conns, g)) # 1
        \/ \E i \in 1..Len(conns) :
              Endpoints(conns[i]) \subseteq g /\ ~Directed(conns[i]) }

SourceOf(conns, group) == CHOOSE c \in SourcesOf(conns, group) : TRUE

\* Step 4: the source's symbol for the source and for the variables of the
\* group; a variable in other units than the source keeps its own symbol and
\* is linked to the source by an equation.  A variable outside every group
\* is bound to itself if it is never an `in`.
MutAssigned(conns, c) ==
    LET group == Group(conns, c)
        source == SourceOf(conns, group)
    IN  IF Cardinality(group) = 1
        THEN IF DeclaresIn(variables[c]) THEN None ELSE identitySymbol(c)
        ELSE IF c = source \/ variables[c].units # variables[source].units
                \/ c \notin Neighbours(conns, source)
        THEN identitySymbol(c)
        ELSE identitySymbol(source)

Assigned(conns, c) ==
    LET group == Group(conns, c)
        source == SourceOf(conns, group)
    IN  IF Cardinality(group) = 1
        THEN IF DeclaresIn(variables[c]) THEN None ELSE identitySymbol(c)
        ELSE IF c = source \/ variables[c].units # variables[source].units
        THEN identitySymbol(c)
        ELSE identitySymbol(source)

Eq(lhs, rhs) == [lhs |-> lhs, rhs |-> rhs]

LinkingEquations(conns, c) ==
    LET group == Group(conns, c)
        source == SourceOf(conns, group)
    IN  IF Cardinality(group) > 1 /\ c # source
           /\ variables[c].units # variables[source].units
        THEN { Eq(identitySymbol(c), identitySymbol(source)) }
        ELSE {}

\* Step 5: every reference to a variable replaced by its assignment.
Substitute(assigned, symbol) ==
    IF symbol \in Components /\ assigned[symbol] # None
    THEN assigned[symbol] ELSE symbol

Rewrite(assigned, eqs) ==
    { Eq(Substitute(assigned, e.lhs), Substitute(assigned, e.rhs)) : e \in eqs }

\* The equations of a component before resolution: its state defined by its
\* variable.
InitialEquations(c) == { Eq("state", identitySymbol(c)) }
\* make_connections as a whole, on a connection list in the given order.
ResolveAll(conns) ==
    LET hidden == { i \in 1..Len(conns) :
                        ~isVisible(conns[i][1][1], conns[i][2][1]) }
        first == CHOOSE i \in hidden : \A j \in hidden : i <= j
        assigned == [c \in Components |-> Assigned(conns, c)]
    IN  IF hidden # {}
        THEN [ok |-> FALSE, err |-> InvalidConnectionError(conns[first]),
              assignment |-> <<>>, equations |-> <<>>]
        ELSE IF AmbiguousGroups(conns) # {}
        THEN [ok |-> FALSE,
              err |-> AmbiguousSourceError(CHOOSE g \in AmbiguousGroups(conns) : TRUE),
              assignment |-> <<>>, equations |-> <<>>]
        ELSE [ok |-> TRUE, err |-> None,
              assignment |-> assigned,
              equations |-> [c \in Components |->
                                Rewrite(assigned, InitialEquations(c)
                                                  \cup LinkingEquations(conns, c))]]

InitResolve ==
    /\ \E groups \in HierarchyDocuments :
          LET st == add_relationships(groups, NoRelationships)
          IN  /\ parent = st.parent
              /\ encapsulated = st.encapsulated
              /\ siblings = st.siblings
              /\ relErr = st.err
              /\ nGroups = Len(groups)
              /\ listed = UNION { Nestings(groups[i].refs) : i \in 1..Len(groups) }
              /\ listedTop = UNION { TopLevel(groups[i].refs) : i \in 1..Len(groups) }
    /\ connections \in ConnectionLists
    /\ map_component = None /\ connErr = None /\ doc = <<>>
    /\ MathsIdle
    /\ StoreIdle /\ EquationIdle
    /\ variables \in VariableTables
    /\ assignment = [c \in Components |-> None]
    /\ equations = [c \in Components |-> InitialEquations(c)]
    /\ pc = "edges"
    /\ resErr = None
    /\ nAccepted = 0

Fail(err) ==
    /\ pc' = "failed"
    /\ resErr' = err
    /\ UNCHANGED <<assignment, equations, nAccepted>>

\* Step 3: the next connection becomes an edge if its components see each
\* other.
AcceptEdge ==
    /\ pc = "edges"
    /\ nAccepted < Len(connections)
    /\ LET connection == connections[nAccepted + 1]
       IN  IF isVisible(connection[1][1], connection[2][1])
           THEN /\ nAccepted' = nAccepted + 1
                /\ UNCHANGED <<assignment, equations, pc, resErr>>
           ELSE Fail(InvalidConnectionError(connection))
    /\ UNCHANGED <<parserVars, storeVars, eqVars, variables>>

\* Step 2: every group has exactly one source.
DetermineSources ==
    /\ pc = "edges"
    /\ nAccepted = Len(connections)
    /\ IF AmbiguousGroups(connections) # {}
       THEN Fail(AmbiguousSourceError(CHOOSE g \in AmbiguousGroups(connections) : TRUE))
       ELSE /\ pc' = "assign"
            /\ UNCHANGED <<assignment, equations, resErr, nAccepted>>
    /\ UNCHANGED <<parserVars, storeVars, eqVars, variables>>

\* Step 4: the assignments, and the equations linking different units.
AssignVariables ==
    /\ pc = "assign"
    /\ assignment' = [c \in Components |-> Assigned(connections, c)]
    /\ equations' = [c \in Components |->
                        equations[c] \cup LinkingEquations(connections, c)]
    /\ pc' = "rewrite"
    /\ UNCHANGED <<resErr, nAccepted>>
    /\ UNCHANGED <<parserVars, storeVars, eqVars, variables>>

\* Step 5: the equations rewritten over the assigned symbols.
RewriteEquations ==
    /\ pc = "rewrite"
    /\ equations' = [c \in Components |-> Rewrite(assignment, equations[c])]
    /\ pc' = "done"
    /\ UNCHANGED <<assignment, resErr, nAccepted>>
    /\ UNCHANGED <<parserVars, storeVars, eqVars, variables>>

NextResolve ==
    AcceptEdge \/ DetermineSources \/ AssignVariables \/ RewriteEquations

SpecResolve == InitResolve /\ [][NextResolve]_vars

(***************************************************************************)
(* Claims about the connection resolver (specification SpecResolve).       *)
(***************************************************************************)
Finished == pc \in {"done", "failed"}

\* Read off the declarations: the variables of a group that declare `out`,
\* and those that declare `out` and never `in`.
OutDeclarers(group) == { c \in group : DeclaresOut(variables[c]) }

TrueSources(group) ==
    { c \in group : DeclaresOut(variables[c]) /\ ~DeclaresIn(variables[c]) }

TrueSource(group) == CHOOSE c \in TrueSources(group) : TRUE

SameUnits(group) == \A a, b \in group : variables[a].units = variables[b].units

\* Read off the document: the same component, listed parent and child, or
\* the same listed parent (none for both at the top of the model).
TrulyVisible(a, b) ==
    \/ a = b
    \/ <<a, b>> \in listed
    \/ <<b, a>> \in listed
    \/ ListedParents(a) = ListedParents(b)

ConnectionVisible(connection) == TrulyVisible(connection[1][1], connection[2][1])

C2_FailsUnlessOneOut ==
    (Finished /\ \E g \in Groups(connections) : Cardinality(OutDeclarers(g)) # 1)
        => (pc = "failed" /\ resErr.message = CannotDetermine)

\* C2 amended: make_connections fails with "Cannot determine the source &
\* target" whenever some connected group has zero or more than one source,
\* a source being a variable that declares `out` and never `in`.
C2_FailsUnlessOneSource ==
    (Finished /\ \E g \in Groups(connections) : Cardinality(TrueSources(g)) # 1)
        => (pc = "failed" /\ resErr.message = CannotDetermine)

\* Two sources in one group of mutually visible components were refused.
C2_Witness ==
    /\ pc = "failed"
    /\ resErr.type = "AmbiguousSourceError"
    /\ \A i \in 1..Len(connections) : ConnectionVisible(connections[i])
    /\ \E g \in Groups(connections) : Cardinality(TrueSources(g)) > 1

ListOrders(conns) ==
    { l \in [1..Len(conns) -> SeqRange(conns)] :
        \A i, j \in 1..Len(conns) : i # j => l[i] # l[j] }

MathChildren ==
    UNION { [1..n -> 0..MaxExprs] : n \in 0..MaxMaths }

\* component_element.find(math): the first <math> child, or None (0).
find_math(children) == IF children = <<>> THEN 0 ELSE 1

\* transpiler.parse_string(math_element): the equations of one element.
parse_string(children, i) == [j \in 1..children[i] |-> <<i, j>>]

\* lines 108-116: the equations of the element found extend the component's.
add_maths(eqs, children) ==
    LET math_element == find_math(children)
    IN  IF math_element # 0
        THEN eqs \o parse_string(children, math_element)
        ELSE eqs

InitMaths ==
    /\ parent = NoRelationships.parent
    /\ encapsulated = NoRelationships.encapsulated
    /\ siblings = NoRelationships.siblings
    /\ relErr = None /\ nGroups = 0 /\ listed = {} /\ listedTop = {}
    /\ connections = <<>> /\ map_component = None /\ connErr = None /\ doc = <<>>
    /\ math_elements \in MathChildren
    /\ component_equations = <<>>
    /\ mathsDone = FALSE
    /\ StoreIdle /\ EquationIdle /\ ResolverIdle

AddMaths ==
    /\ ~mathsDone
    /\ component_equations' = add_maths(component_equations, math_elements)
    /\ mathsDone' = TRUE
    /\ UNCHANGED <<parent, encapsulated, siblings, relErr, nGroups, listed, listedTop,
                   connections, map_component, connErr, doc, math_elements>>
    /\ UNCHANGED <<storeVars, eqVars, resolverVars>>

NextMaths == AddMaths

SpecMaths == InitMaths /\ [][NextMaths]_vars

\* The equations of all the <math> children, in element order.
RECURSIVE AllEquations(_, _)
AllEquations(children, i) ==
    IF i > Len(children) THEN <<>>
    ELSE parse_string(children, i) \o AllEquations(children, i + 1)

\* C11: after parsing, the component's equations are the equations of all its
\* <math> elements in element order, not only those of the first.
C11_AllMathElementsCollected ==
    mathsDone => component_equations = AllEquations(math_elements, 1)

(***************************************************************************)
(* Claims about base units (specification SpecStore).                      *)
(***************************************************************************)
BaseDeclared(defs, name) == Declared(defs, name) /\ defs[name] = << BaseUnits >>

\* Every reference reachable from `name` is a built-in, a declared base unit
\* or a declared unit, and no unit is defined in terms of itself.
RECURSIVE Grounded(_, _, _)
Grounded(defs, name, above) ==
    IF name \in above THEN FALSE
    ELSE IF BaseDeclared(defs, name) THEN TRUE
    ELSE IF Declared(defs, name)
    THEN \A k \in 1..Len(defs[name]) :
            Grounded(defs, defs[name][k].units, above \cup {name})
    ELSE name \in PintRoots \cup PintAliases

\* The power of the declared base units in the unit a name stands for.
RECURSIVE BaseExponent(_, _)
BaseExponent(defs, name) ==
    IF BaseDeclared(defs, name) THEN 1
    ELSE IF Declared(defs, name)
    THEN LET F[k \in 0..Len(defs[name])] ==
                 IF k = 0 THEN 0
                 ELSE F[k - 1] + defs[name][k].exponent
                                 * BaseExponent(defs, defs[name][k].units)
         IN  F[Len(defs[name])]
    ELSE 0

\* C12: a <units base_units="yes"> element is a usable unit: resolving its
\* name succeeds and yields a unit of its own fresh dimension, and a unit
\* defined from it resolves to the corresponding derived dimension.
C12_BaseUnitsUsable ==
    (/\ Returned
     /\ Declared(cellml_definitions, ret.name)
     /\ Grounded(cellml_definitions, ret.name, {})
     /\ BaseExponent(cellml_definitions, ret.name) # 0)
        => /\ ret.err = None
           /\ UnitValue(ureg, ret.unit).dim["Z"]
              = BaseExponent(cellml_definitions, ret.name)

(***************************************************************************)
(* Claims about the conversion factor (specification SpecEquations).       *)
(***************************************************************************)
\* UnitStore.get_conversion_factor, lines 182-191: the magnitude of one
\* from_unit in to_unit, as a power of ten; the dimensionalities must agree.
get_conversion_factor(from_unit, to_unit) ==
    IF SameDimensionality(from_unit, to_unit)
    THEN [err |-> None, magnitude |-> ToMagnitude(from_unit, to_unit)]
    ELSE [err |-> "AssertionError", magnitude |-> 0]

\* lhs[millivolt] = rhs[volt]
MillivoltFromVolt ==
    [lhs |-> << Symbol(UnitOfName("millivolt"), 1) >>,
     rhs |-> << Symbol(UnitOfName("volt"), 1) >>]

MillivoltPerVolt ==
    ContainerMul(UnitOfName("millivolt"), ContainerPow(UnitOfName("volt"), -1))

\* C13 as stated: reconciling lhs[millivolt] = rhs[volt] introduces a factor
\* symbol of value 0.001 = 10^-3 and unit millivolt/volt, and the corrected
\* equation passes the check.
C13_FactorIsOneThousandth ==
    (original = MillivoltFromVolt /\ factor # <<>>) =>
        /\ factor[1].number = -3
        /\ factor[1].unit = MillivoltPerVolt
        /\ eqPhase = "checked" => checkResult = "passed"

\* C13 amended: reconciling lhs[millivolt] = rhs[volt] introduces a factor
\* symbol of value 1000 = 10^3, the conversion factor from the RHS unit to
\* the LHS unit, and unit millivolt/volt, and the corrected equation passes
\* the check.
C13_FactorIsOneThousand ==
    (original = MillivoltFromVolt /\ factor # <<>>) =>
        /\ factor[1].number = 3
        /\ factor[1].number
           = get_conversion_factor(UnitOfName("volt"), UnitOfName("millivolt")).magnitude
        /\ factor[1].unit = MillivoltPerVolt
        /\ eqPhase = "checked" => checkResult = "passed"

\* lhs[millivolt] = rhs[volt] was reconciled and checked again.
C13_Witness ==
    /\ original = MillivoltFromVolt
    /\ factor # <<>>
    /\ equation.rhs = Append(original.rhs, Symbol(MillivoltPerVolt, 1))
    /\ eqPhase = "checked"
    /\ checkResult = "passed"

(***************************************************************************)
(* Claims about repeated resolution (specification SpecStore).             *)
(***************************************************************************)
\* A successful resolve of a declared name leaves it among the built units.
ResolvedIsRecorded ==
    (Returned /\ Declared(cellml_definitions, ret.name) /\ ret.err = None)
        => ret.name \in cellml_defined

\* A step keeps every entry of the registry and every built name, and
\* defines a name only if it was not built before.
BuiltAtMostOnce ==
    /\ \A entry \in ureg : entry \in ureg'
    /\ cellml_defined \subseteq cellml_defined'
    /\ \A n \in CustomNames :
          (Defined(ureg', n) /\ ~Defined(ureg, n)) =>
              (n \notin cellml_defined /\ n \in cellml_defined')

\* C14: over any sequence of get_quantity calls each declared custom unit is
\* built and registered at most once: after its first successful resolve it
\* is in cellml_defined, and later resolves return the same unit without
\* rebuilding or redefining it.
C14_BuiltOnceAndRecorded ==
    /\ []ResolvedIsRecorded
    /\ [][BuiltAtMostOnce]_vars

(***************************************************************************)
(* Claims about termination (specification SpecStoreLive).                 *)
(***************************************************************************)
\* `name` refers to itself, directly or through other declared units.
RECURSIVE Reaches(_, _, _, _)
Reaches(defs, from, to, steps) ==
    /\ steps > 0
    /\ Declared(defs, from)
    /\ \E k \in 1..Len(defs[from]) :
          \/ defs[from][k].units = to
          \/ Reaches(defs, defs[from][k].units, to, steps - 1)

Cyclic(defs, name) == Reaches(defs, name, name, Cardinality(CustomNames))

====
